---- MODULE Spec2Model ----
(***************************************************************************)
(* State-machine model of the two search components of the repository:     *)
(*   SearchEngine   (src/frontend/src/components/SearchEngine.tsx)         *)
(*   MIDISearchApp  (src/midi-search-ui.tsx)                               *)
(* A text is a sequence of one-character strings.  One action is one       *)
(* event handler, timer callback or promise continuation, run to its end   *)
(* (React batches the state updates of one handler into one render).       *)
(***************************************************************************)
EXTENDS Integers, Sequences, FiniteSets, TLC

\* ---------------------------------------------------------------- bounds
MaxLen == 2          \* longest text the user types
MaxEvents == 4       \* user events (typing, clicks) in one run
NumDifficulty == 2   \* difficulty check boxes the user touches
NumGenre == 1        \* genre check boxes the user touches
NumRecords == 1      \* records the search service can return
NumSuggest == 1      \* longest suggestion list the service returns

\* ------------------------------------------------------------- constants
DebounceQuery == 2   \* query.length >= 2

SE == "SearchEngine"
MIDI == "MIDISearchApp"

Alphabet == {"E", " "}
Whitespace == {" "}

RECURSIVE TextsOfLen(_)
TextsOfLen(n) ==
    IF n = 0 THEN {<<>>}
    ELSE {Append(t, c) : t \in TextsOfLen(n - 1), c \in Alphabet}

TypedTexts == UNION {TextsOfLen(n) : n \in 0..MaxLen}

\* the mock suggestion list of MIDISearchApp.fetchAutocomplete
Beethoven == <<"B","e","e","t","h","o","v","e","n">>
Bach == <<"B","a","c","h">>
Chopin == <<"C","h","o","p","i","n">>
Mozart == <<"M","o","z","a","r","t">>
MockSuggestions == <<Beethoven, Bach, Chopin, Mozart>>

\* ------------------------------------------------------- string functions
\* String.prototype.trim
RECURSIVE TrimStart(_)
TrimStart(s) ==
    IF s # <<>> /\ Head(s) \in Whitespace THEN TrimStart(Tail(s)) ELSE s

RECURSIVE TrimEnd(_)
TrimEnd(s) ==
    IF s # <<>> /\ s[Len(s)] \in Whitespace
    THEN TrimEnd(SubSeq(s, 1, Len(s) - 1)) ELSE s

trim(s) == TrimEnd(TrimStart(s))

\* String.prototype.toLowerCase
LowerChar(c) ==
    CASE c = "B" -> "b"
      [] c = "C" -> "c"
      [] c = "E" -> "e"
      [] c = "M" -> "m"
      [] OTHER -> c

toLowerCase(s) == [i \in 1..Len(s) |-> LowerChar(s[i])]

\* String.prototype.includes
includes(s, sub) ==
    \E i \in 0..(Len(s) - Len(sub)) : SubSeq(s, i + 1, i + Len(sub)) = sub

\* the sequence without its element number i
RemoveAt(sq, i) ==
    [j \in 1..(Len(sq) - 1) |-> IF j < i THEN sq[j] ELSE sq[j + 1]]

\* Array.prototype.includes
arrayIncludes(arr, v) == \E i \in 1..Len(arr) : arr[i] = v

\* encodeURIComponent on the characters of the alphabet
RECURSIVE encodeURIComponent(_)
encodeURIComponent(s) ==
    IF s = <<>> THEN <<>>
    ELSE (IF Head(s) = " " THEN <<"%", "2", "0">> ELSE <<Head(s)>>)
         \o encodeURIComponent(Tail(s))

\* ------------------------------------------------------------------ state
VARIABLES
    app,            \* which component is rendered
    mounted,        \* it is mounted: FALSE after React has unmounted it
    query,          \* useState('')
    results,        \* useState([])
    loading,        \* useState(false)
    filters,        \* useState({difficulty: [], genre: [], ...})
    autocomplete,   \* useState([])
    timers,         \* live debounce timers of the browser: <<[h, q]>>, q the query the callback closed over
    timer,          \* `const timer` of the last run of the debounce effect
    acPending,      \* autocomplete fetches in flight: the set of their numbers
    acIssued,       \* number of fetchAutocomplete calls so far
    acQuery,        \* the q of the last fetchAutocomplete call
    searchPending,  \* searches in flight, in issue order: the sequence of their numbers
    searchIssued,   \* number of searches issued so far
    searchUrl,      \* the URL of the last search handed to fetch
    searchDone,     \* settled searches in arrival order: <<[id, ok, data]>>
    resultsAtIssue, \* for each search in flight, the results shown when it was issued
    lastEvent,      \* the event handled by the last step: [kind, id]
    events          \* number of user events handled so far

vars == <<app, mounted, query, results, loading, filters, autocomplete, timers, timer,
          acPending, acIssued, acQuery, searchPending, searchIssued, searchUrl,
          searchDone, resultsAtIssue, lastEvent, events>>

\* enum Difficulty / enum Genre, in declaration order
DifficultyValues == <<"beginner", "intermediate", "advanced", "expert">>
GenreValues == <<"classical", "pop", "jazz", "game", "other">>
\* the check boxes of MIDISearchApp
MIDI_DifficultyValues == <<"beginner", "intermediate", "advanced", "expert">>
MIDI_GenreValues == <<"classical", "jazz", "pop", "game", "film">>

Min(a, b) == IF a < b THEN a ELSE b
DifficultyInputs(a) ==
    LET vs == IF a = SE THEN DifficultyValues ELSE MIDI_DifficultyValues
    IN {vs[i] : i \in 1..Min(NumDifficulty, Len(vs))}
GenreInputs(a) ==
    LET vs == IF a = SE THEN GenreValues ELSE MIDI_GenreValues
    IN {vs[i] : i \in 1..Min(NumGenre, Len(vs))}

\* what the services answer
\* a MIDIFile with every field, one without tempo / duration / note_density,
\* and an element that is no record at all (JSON null)
FullRecord(i) == [id |-> i, isRecord |-> TRUE, hasOptional |-> TRUE]
SparseRecord(i) == [id |-> i, isRecord |-> TRUE, hasOptional |-> FALSE]
NullElement == [id |-> 0, isRecord |-> FALSE, hasOptional |-> FALSE]
\* the bodies of a 200 answer of /search: res.json() is not validated
ResultLists ==
    {[i \in 1..(hi - lo + 1) |-> IF opt THEN FullRecord(lo + i - 1) ELSE SparseRecord(lo + i - 1)] :
        lo \in 1..(NumRecords + 1), hi \in 0..NumRecords, opt \in BOOLEAN}
    \cup {<<NullElement>>}
SuggestionLists ==
    {SubSeq(MockSuggestions, 1, k) : k \in 0..Min(NumSuggest, Len(MockSuggestions))}
\* mockSearchResults: the records with id '1', '2', '3'
mockSearchResults == <<"1", "2", "3">>

SE_initialFilters == [difficulty |-> <<>>, genre |-> <<>>]
MIDI_initialFilters ==
    [difficulty |-> <<>>, genre |-> <<>>,
     tempo_min |-> "", tempo_max |-> "", duration_max |-> "", min_quality |-> 6]

Event(k, i) == [kind |-> k, id |-> i]

\* no search was handed to fetch yet
NoUrl == <<>>

\* results.map(file => ... file.id ...) throws a TypeError on an element that
\* is no object
SE_renderThrows(res) == \E i \in 1..Len(res) : ~res[i].isRecord
\* the render threw: React unmounts the component, no handler runs any more
Crashed == app = SE /\ loading = FALSE /\ SE_renderThrows(results)

\* -------------------------------------------------------- browser timers
\* clearTimeout(h): removes the timer with handle h, if it is still alive
clearTimeout(ts, h) == SelectSeq(ts, LAMBDA t : t.h # h)

\* the handle setTimeout returns: one no live timer has
FreshHandle(ts) ==
    CHOOSE h \in 1..(Len(ts) + 1) :
        /\ \A i \in 1..Len(ts) : ts[i].h # h
        /\ \A g \in 1..(h - 1) : \E i \in 1..Len(ts) : ts[i].h = g

\* the effect without `return () => clearTimeout(timer)`
SE_useEffect_noCleanup(v) ==
    LET h == FreshHandle(timers)
    IN /\ timers' = Append(timers, [h |-> h, q |-> v])
       /\ timer' = h

\* useEffect(..., [query]) when query becomes v: the cleanup of the previous
\* run, then the new run arms a timer whose callback closes over v
SE_useEffect(v) ==
    LET cleared == clearTimeout(timers, timer)
        h == FreshHandle(cleared)
    IN /\ timers' = Append(cleared, [h |-> h, q |-> v])
       /\ timer' = h

\* the same effect in MIDISearchApp.  Its timers also record in s how many
\* mock searches were started before the handler that armed them: the delay
\* is 300 ms, the delay of a mock search is 500 ms, so such a timer fires
\* before the mock search number s + 1 answers.
MIDI_useEffect(v) ==
    LET cleared == clearTimeout(timers, timer)
        h == FreshHandle(cleared)
    IN /\ timers' = Append(cleared, [h |-> h, q |-> v, s |-> searchIssued])
       /\ timer' = h

\* setQuery(v) and the render it causes; an equal value causes no render
setQuery(v) ==
    /\ query' = v
    /\ IF v = query THEN UNCHANGED <<timers, timer>>
       ELSE IF app = SE THEN SE_useEffect(v) ELSE MIDI_useEffect(v)

\* ------------------------------------------------------------------- Init
Init ==
    /\ app \in {SE, MIDI}
    /\ mounted = TRUE
    /\ query = <<>>
    /\ results = <<>>
    /\ loading = FALSE
    /\ filters = IF app = SE THEN SE_initialFilters ELSE MIDI_initialFilters
    /\ autocomplete = <<>>
    /\ timers = IF app = SE                 \* the effect ran once on mount
                THEN <<[h |-> 1, q |-> <<>>]>>
                ELSE <<[h |-> 1, q |-> <<>>, s |-> 0]>>
    /\ timer = 1
    /\ acPending = {}
    /\ acIssued = 0
    /\ acQuery = <<>>
    /\ searchPending = <<>>
    /\ searchIssued = 0
    /\ searchUrl = NoUrl
    /\ searchDone = <<>>
    /\ resultsAtIssue = <<>>
    /\ lastEvent = Event("mount", 0)
    /\ events = 0

\* ----------------------------------------------------------- text change
\* <input onChange={(e) => setQuery(e.target.value)}>
SE_onChange(v) ==
    /\ app = SE
    /\ mounted
    /\ ~Crashed
    /\ events < MaxEvents
    /\ events' = events + 1
    /\ v # query
    /\ setQuery(v)
    /\ lastEvent' = Event("change", 0)
    /\ UNCHANGED <<app, mounted, results, loading, filters, autocomplete,
                   acPending, acIssued, acQuery, searchPending, resultsAtIssue, searchIssued, searchUrl, searchDone>>

MIDI_onChange(v) ==
    /\ app = MIDI
    /\ mounted
    /\ events < MaxEvents
    /\ events' = events + 1
    /\ v # query
    /\ setQuery(v)
    /\ lastEvent' = Event("change", 0)
    /\ UNCHANGED <<app, mounted, results, loading, filters, autocomplete,
                   acPending, acIssued, acQuery, searchPending, resultsAtIssue, searchIssued, searchUrl, searchDone>>

\* --------------------------------------------------- the debounce callback
\* SearchEngine.fetchAutocomplete(q) up to its first await: the fetch is sent
SE_fetchAutocomplete(q) ==
    /\ acIssued' = acIssued + 1
    /\ acPending' = acPending \cup {acIssued + 1}
    /\ acQuery' = q
    /\ UNCHANGED autocomplete

\* MIDISearchApp.fetchAutocomplete(q): the mock answers at once
MIDI_fetchAutocomplete(q) ==
    /\ acIssued' = acIssued + 1
    /\ autocomplete' =
          SelectSeq(MockSuggestions,
                    LAMBDA sg : includes(toLowerCase(sg), toLowerCase(q)))
    /\ acQuery' = q
    /\ UNCHANGED acPending

\* the callback of live timer number i fires
SE_timeout(i) ==
    /\ app = SE
    /\ ~Crashed
    /\ UNCHANGED events
    /\ i \in 1..Len(timers)
    /\ timers' = RemoveAt(timers, i)   \* a timer fires once
    /\ IF Len(timers[i].q) >= DebounceQuery
       THEN SE_fetchAutocomplete(timers[i].q)
       ELSE /\ autocomplete' = <<>>
            /\ UNCHANGED <<acPending, acIssued, acQuery>>
    /\ lastEvent' = Event("timeout", 0)
    /\ UNCHANGED <<app, mounted, query, results, loading, filters, timer,
                   searchPending, resultsAtIssue, searchIssued, searchUrl, searchDone>>

MIDI_timeout(i) ==
    /\ app = MIDI
    /\ UNCHANGED events
    /\ i \in 1..Len(timers)
    /\ timers' = RemoveAt(timers, i)   \* a timer fires once
    /\ IF Len(timers[i].q) >= DebounceQuery
       THEN MIDI_fetchAutocomplete(timers[i].q)
       ELSE /\ autocomplete' = <<>>
            /\ UNCHANGED <<acPending, acIssued, acQuery>>
    /\ lastEvent' = Event("timeout", 0)
    /\ UNCHANGED <<app, mounted, query, results, loading, filters, timer,
                   searchPending, resultsAtIssue, searchIssued, searchUrl, searchDone>>

\* -------------------------------------- SearchEngine: autocomplete answers
\* res.ok and res.json() gives data: setAutocomplete(data).  The two awaits
\* change no state in between, so the continuation is one step.
SE_fetchAutocomplete_ok(r, data) ==
    /\ app = SE
    /\ mounted
    /\ ~Crashed
    /\ UNCHANGED events
    /\ r \in acPending
    /\ acPending' = acPending \ {r}
    /\ autocomplete' = data
    /\ lastEvent' = Event("ac_ok", r)
    /\ UNCHANGED <<app, mounted, query, results, loading, filters, timers, timer,
                   acIssued, acQuery, searchPending, resultsAtIssue, searchIssued, searchUrl, searchDone>>

\* !res.ok, or fetch / res.json() throws and the catch logs it
SE_fetchAutocomplete_failed(r) ==
    /\ app = SE
    /\ mounted
    /\ ~Crashed
    /\ UNCHANGED events
    /\ r \in acPending
    /\ acPending' = acPending \ {r}
    /\ lastEvent' = Event("ac_failed", r)
    /\ UNCHANGED <<app, mounted, query, results, loading, filters, autocomplete, timers, timer,
                   acIssued, acQuery, searchPending, resultsAtIssue, searchIssued, searchUrl, searchDone>>

\* ------------------------------------------------------ SearchEngine: search
\* a URL construction that appends the difficulty values last to first
SE_url_reversed(q, f) ==
    <<<<"limit", <<"5", "0">>>>>>
    \o (IF q # <<>> THEN <<<<"query", encodeURIComponent(q)>>>> ELSE <<>>)
    \o [i \in 1..Len(f.difficulty) |-> <<"difficulty", f.difficulty[Len(f.difficulty) + 1 - i]>>]
    \o [i \in 1..Len(f.genre) |-> <<"genre", f.genre[i]>>]

\* the URL handleSearch builds from the query and filters of its render:
\* /search?limit=50[&query=...](&difficulty=d)*(&genre=g)*, as the sequence
\* of its <<name, value>> parameters
SE_url(q, f) ==
    <<<<"limit", <<"5", "0">>>>>>
    \o (IF q # <<>> THEN <<<<"query", encodeURIComponent(q)>>>> ELSE <<>>)
    \o [i \in 1..Len(f.difficulty) |-> <<"difficulty", f.difficulty[i]>>]
    \o [i \in 1..Len(f.genre) |-> <<"genre", f.genre[i]>>]

\* handleSearch() up to `await fetch(url)`, called from the render whose
\* query and filters are q and f
SE_handleSearch_issue(q, f) ==
    /\ loading' = TRUE
    /\ searchIssued' = searchIssued + 1
    /\ searchUrl' = SE_url(q, f)
    /\ searchPending' = Append(searchPending, searchIssued + 1)
    /\ resultsAtIssue' = Append(resultsAtIssue, results)

\* the Search button and the Enter key: handleSearch of the current render
SE_handleSearch ==
    /\ app = SE
    /\ mounted
    /\ ~Crashed
    /\ events < MaxEvents
    /\ events' = events + 1
    /\ SE_handleSearch_issue(query, filters)
    /\ lastEvent' = Event("submit", searchIssued + 1)
    /\ UNCHANGED <<app, mounted, query, results, filters, autocomplete, timers, timer,
                   acPending, acIssued, acQuery, searchDone>>

\* a pick whose text change does not run the effect
SE_pickSuggestion_noEffect(i) ==
    /\ app = SE
    /\ mounted
    /\ ~Crashed
    /\ events < MaxEvents
    /\ events' = events + 1
    /\ i \in 1..Len(autocomplete)
    /\ query' = autocomplete[i]
    /\ autocomplete' = <<>>
    /\ SE_handleSearch_issue(query, filters)
    /\ lastEvent' = Event("pick", searchIssued + 1)
    /\ UNCHANGED <<app, mounted, results, filters, timers, timer, acPending, acIssued,
                   acQuery, searchDone>>

\* onClick of suggestion number i: setQuery(s); setAutocomplete([]);
\* handleSearch().  handleSearch is the closure of the render that drew the
\* button: its `query` is the text before the click.
SE_pickSuggestion(i) ==
    /\ app = SE
    /\ mounted
    /\ ~Crashed
    /\ events < MaxEvents
    /\ events' = events + 1
    /\ i \in 1..Len(autocomplete)
    /\ setQuery(autocomplete[i])
    /\ autocomplete' = <<>>
    /\ SE_handleSearch_issue(query, filters)
    /\ lastEvent' = Event("pick", searchIssued + 1)
    /\ UNCHANGED <<app, mounted, results, filters, acPending, acIssued, acQuery, searchDone>>

\* a continuation that also resets the filters when the answer arrives
SE_handleSearch_ok_resetsFilters(i, data) ==
    /\ app = SE
    /\ mounted
    /\ ~Crashed
    /\ UNCHANGED events
    /\ i \in 1..Len(searchPending)
    /\ searchPending' = RemoveAt(searchPending, i)
    /\ resultsAtIssue' = RemoveAt(resultsAtIssue, i)
    /\ results' = data
    /\ loading' = FALSE
    /\ autocomplete' = <<>>
    /\ filters' = SE_initialFilters
    /\ searchDone' = Append(searchDone, [id |-> searchPending[i], ok |-> TRUE, data |-> data])
    /\ lastEvent' = Event("search_ok", searchPending[i])
    /\ UNCHANGED <<app, mounted, query, timers, timer, acPending, acIssued, acQuery,
                   searchIssued, searchUrl>>

\* the fetch of pending search number i resolves with res.ok and a body:
\* setResults(data), then the finally block
SE_handleSearch_ok(i, data) ==
    /\ app = SE
    /\ mounted
    /\ ~Crashed
    /\ UNCHANGED events
    /\ i \in 1..Len(searchPending)
    /\ searchPending' = RemoveAt(searchPending, i)
    /\ resultsAtIssue' = RemoveAt(resultsAtIssue, i)
    /\ results' = data
    /\ loading' = FALSE
    /\ autocomplete' = <<>>
    /\ searchDone' = Append(searchDone, [id |-> searchPending[i], ok |-> TRUE, data |-> data])
    /\ lastEvent' = Event("search_ok", searchPending[i])
    /\ UNCHANGED <<app, mounted, query, filters, timers, timer, acPending, acIssued, acQuery,
                   searchIssued, searchUrl>>

\* a failure handler that also empties the list
SE_handleSearch_failed_clears(i) ==
    /\ app = SE
    /\ mounted
    /\ ~Crashed
    /\ UNCHANGED events
    /\ i \in 1..Len(searchPending)
    /\ searchPending' = RemoveAt(searchPending, i)
    /\ resultsAtIssue' = RemoveAt(resultsAtIssue, i)
    /\ results' = <<>>
    /\ loading' = FALSE
    /\ autocomplete' = <<>>
    /\ searchDone' = Append(searchDone, [id |-> searchPending[i], ok |-> FALSE, data |-> <<>>])
    /\ lastEvent' = Event("search_failed", searchPending[i])
    /\ UNCHANGED <<app, mounted, query, filters, timers, timer, acPending, acIssued, acQuery,
                   searchIssued, searchUrl>>

\* a failure handler with no `finally { setLoading(false) }`
SE_handleSearch_failed_keepsLoading(i) ==
    /\ app = SE
    /\ mounted
    /\ ~Crashed
    /\ UNCHANGED events
    /\ i \in 1..Len(searchPending)
    /\ searchPending' = RemoveAt(searchPending, i)
    /\ resultsAtIssue' = RemoveAt(resultsAtIssue, i)
    /\ autocomplete' = <<>>
    /\ searchDone' = Append(searchDone, [id |-> searchPending[i], ok |-> FALSE, data |-> <<>>])
    /\ lastEvent' = Event("search_failed", searchPending[i])
    /\ UNCHANGED <<app, mounted, query, results, loading, filters, timers, timer,
                   acPending, acIssued, acQuery, searchIssued, searchUrl>>

\* !res.ok, or fetch / res.json() throws: only the finally block
SE_handleSearch_failed(i) ==
    /\ app = SE
    /\ mounted
    /\ ~Crashed
    /\ UNCHANGED events
    /\ i \in 1..Len(searchPending)
    /\ searchPending' = RemoveAt(searchPending, i)
    /\ resultsAtIssue' = RemoveAt(resultsAtIssue, i)
    /\ loading' = FALSE
    /\ autocomplete' = <<>>
    /\ searchDone' = Append(searchDone, [id |-> searchPending[i], ok |-> FALSE, data |-> <<>>])
    /\ lastEvent' = Event("search_failed", searchPending[i])
    /\ UNCHANGED <<app, mounted, query, results, filters, timers, timer, acPending, acIssued, acQuery,
                   searchIssued, searchUrl>>

\* ----------------------------------------------------- MIDISearchApp: search
\* the guard lets handleSearch go on:
\* if (!query.trim() && filters.difficulty.length === 0) return;
MIDI_guard(q, f) == ~(trim(q) = <<>> /\ Len(f.difficulty) = 0)

\* handleSearch() called from the render whose query and filters are q and f:
\* the mock API call is a 500 ms timer; clear says whether the caller has
\* already called setAutocomplete([])
MIDI_handleSearch_call(q, f, clear) ==
    IF MIDI_guard(q, f)
    THEN /\ loading' = TRUE
         /\ searchIssued' = searchIssued + 1
         /\ searchPending' = Append(searchPending, searchIssued + 1)
         /\ resultsAtIssue' = Append(resultsAtIssue, results)
         /\ autocomplete' = <<>>
    ELSE /\ autocomplete' = IF clear THEN <<>> ELSE autocomplete
         /\ UNCHANGED <<loading, searchIssued, searchPending, resultsAtIssue>>

\* the Search button and the Enter key
MIDI_handleSearch ==
    /\ app = MIDI
    /\ mounted
    /\ events < MaxEvents
    /\ events' = events + 1
    /\ MIDI_handleSearch_call(query, filters, FALSE)
    /\ lastEvent' = Event("submit", IF MIDI_guard(query, filters) THEN searchIssued + 1 ELSE 0)
    /\ UNCHANGED <<app, mounted, query, results, filters, timers, timer,
                   acPending, acIssued, acQuery, searchUrl, searchDone>>

\* onClick of suggestion number i: setQuery(suggestion); setAutocomplete([]);
\* handleSearch(), the closure of the render that drew the button
MIDI_pickSuggestion(i) ==
    /\ app = MIDI
    /\ mounted
    /\ events < MaxEvents
    /\ events' = events + 1
    /\ i \in 1..Len(autocomplete)
    /\ setQuery(autocomplete[i])
    /\ MIDI_handleSearch_call(query, filters, TRUE)
    /\ lastEvent' = Event("pick", IF MIDI_guard(query, filters) THEN searchIssued + 1 ELSE 0)
    /\ UNCHANGED <<app, mounted, results, filters, acPending, acIssued, acQuery, searchUrl, searchDone>>

\* the 500 ms timers fire in the order they were set: the oldest pending one,
\* and after every 300 ms timer that was armed before it was set
MIDI_handleSearch_timeout ==
    /\ app = MIDI
    /\ mounted
    /\ UNCHANGED events
    /\ searchPending # <<>>
    /\ \A i \in 1..Len(timers) : timers[i].s >= Head(searchPending)
    /\ searchPending' = Tail(searchPending)
    /\ resultsAtIssue' = Tail(resultsAtIssue)
    /\ results' = mockSearchResults
    /\ loading' = FALSE
    /\ searchDone' = Append(searchDone, [id |-> Head(searchPending), ok |-> TRUE,
                                          data |-> mockSearchResults])
    /\ lastEvent' = Event("search_ok", Head(searchPending))
    /\ UNCHANGED <<app, mounted, query, filters, autocomplete, timers, timer,
                   acPending, acIssued, acQuery, searchIssued, searchUrl>>

\* ----------------------------------------------------------------- filters
\* handleFilterChange(key, value) for key 'difficulty' or 'genre'
\* a toggle that always appends, and a toggle that adds in front
toggle_append(current, value) == Append(current, value)

toggle_front(current, value) ==
    IF arrayIncludes(current, value)
    THEN SelectSeq(current, LAMBDA v : v # value)
    ELSE <<value>> \o current

toggle(current, value) ==
    IF arrayIncludes(current, value)
    THEN SelectSeq(current, LAMBDA v : v # value)
    ELSE Append(current, value)

SE_handleFilterChange(key, value) ==
    /\ app = SE
    /\ mounted
    /\ ~Crashed
    /\ events < MaxEvents
    /\ events' = events + 1
    /\ filters' = [filters EXCEPT ![key] = toggle(filters[key], value)]
    /\ lastEvent' = Event("toggle", 0)
    /\ UNCHANGED <<app, mounted, query, results, loading, autocomplete, timers, timer,
                   acPending, acIssued, acQuery, searchPending, resultsAtIssue, searchIssued, searchUrl, searchDone>>

MIDI_handleFilterChange(key, value) ==
    /\ app = MIDI
    /\ mounted
    /\ events < MaxEvents
    /\ events' = events + 1
    /\ filters' = IF key \in {"difficulty", "genre"}
                  THEN [filters EXCEPT ![key] = toggle(filters[key], value)]
                  ELSE [filters EXCEPT ![key] = value]
    /\ lastEvent' = Event(IF key \in {"difficulty", "genre"} THEN "toggle" ELSE "set", 0)
    /\ UNCHANGED <<app, mounted, query, results, loading, autocomplete, timers, timer,
                   acPending, acIssued, acQuery, searchPending, resultsAtIssue, searchIssued, searchUrl, searchDone>>

MIDI_clearFilters ==
    /\ app = MIDI
    /\ mounted
    /\ events < MaxEvents
    /\ events' = events + 1
    /\ filters' = MIDI_initialFilters
    /\ lastEvent' = Event("clear", 0)
    /\ UNCHANGED <<app, mounted, query, results, loading, autocomplete, timers, timer,
                   acPending, acIssued, acQuery, searchPending, resultsAtIssue, searchIssued, searchUrl, searchDone>>

\* values the numeric inputs deliver: e.target.value of the number inputs,
\* parseFloat(e.target.value) of the range input
NumericInputs ==
    {<<"tempo_min", "">>, <<"tempo_min", "120">>,
     <<"min_quality", 6>>, <<"min_quality", 8>>}

\* ---------------------------------------------------------------- unmount
\* an unmount that does not run the cleanup of the effect
SE_unmount_noCleanup ==
    /\ app = SE
    /\ mounted
    /\ ~Crashed
    /\ mounted' = FALSE
    /\ lastEvent' = Event("unmount", 0)
    /\ UNCHANGED <<app, query, results, loading, filters, autocomplete, timers, timer,
                   acPending, acIssued, acQuery, searchPending, resultsAtIssue,
                   searchIssued, searchUrl, searchDone, events>>

\* React unmounts the component: the cleanup of the last run of the effect,
\* `return () => clearTimeout(timer)`, runs.  Handlers and state setters of
\* an unmounted component have no effect; a browser timer that is still
\* alive would fire all the same.
SE_unmount ==
    /\ app = SE
    /\ mounted
    /\ ~Crashed
    /\ mounted' = FALSE
    /\ timers' = clearTimeout(timers, timer)
    /\ lastEvent' = Event("unmount", 0)
    /\ UNCHANGED <<app, query, results, loading, filters, autocomplete, timer,
                   acPending, acIssued, acQuery, searchPending, resultsAtIssue,
                   searchIssued, searchUrl, searchDone, events>>

MIDI_unmount ==
    /\ app = MIDI
    /\ mounted
    /\ mounted' = FALSE
    /\ timers' = clearTimeout(timers, timer)
    /\ lastEvent' = Event("unmount", 0)
    /\ UNCHANGED <<app, query, results, loading, filters, autocomplete, timer,
                   acPending, acIssued, acQuery, searchPending, resultsAtIssue,
                   searchIssued, searchUrl, searchDone, events>>

\* ------------------------------------------------------------------- view
\* the state the component keeps and renders: there is no error state
viewModel ==
    [query |-> query, results |-> results, loading |-> loading,
     filters |-> filters, autocomplete |-> autocomplete]

\* ------------------------------------------------------------------- Next
Next ==
    \/ \E v \in TypedTexts : SE_onChange(v)
    \/ \E v \in TypedTexts : MIDI_onChange(v)
    \/ \E i \in 1..Len(timers) : SE_timeout(i)
    \/ \E i \in 1..Len(timers) : MIDI_timeout(i)
    \/ \E r \in acPending, data \in SuggestionLists : SE_fetchAutocomplete_ok(r, data)
    \/ \E r \in acPending : SE_fetchAutocomplete_failed(r)
    \/ SE_handleSearch
    \/ \E i \in 1..Len(autocomplete) : SE_pickSuggestion(i)
    \/ \E i \in 1..Len(searchPending), data \in ResultLists : SE_handleSearch_ok(i, data)
    \/ \E i \in 1..Len(searchPending) : SE_handleSearch_failed(i)
    \/ MIDI_handleSearch
    \/ \E i \in 1..Len(autocomplete) : MIDI_pickSuggestion(i)
    \/ MIDI_handleSearch_timeout
    \/ \E a \in DifficultyInputs(SE) : SE_handleFilterChange("difficulty", a)
    \/ \E g \in GenreInputs(SE) : SE_handleFilterChange("genre", g)
    \/ \E a \in DifficultyInputs(MIDI) : MIDI_handleFilterChange("difficulty", a)
    \/ \E g \in GenreInputs(MIDI) : MIDI_handleFilterChange("genre", g)
    \/ \E kv \in NumericInputs : MIDI_handleFilterChange(kv[1], kv[2])
    \/ MIDI_clearFilters
    \/ SE_unmount
    \/ MIDI_unmount

Spec == Init /\ [][Next]_vars

\* every fetch of /search settles, every timer that stays alive fires
SE_settle ==
    \/ \E i \in 1..Len(searchPending), data \in ResultLists : SE_handleSearch_ok(i, data)
    \/ \E i \in 1..Len(searchPending) : SE_handleSearch_failed(i)
LiveSpec ==
    /\ Init /\ [][Next]_vars
    /\ WF_vars(SE_settle)
    /\ WF_vars(MIDI_handleSearch_timeout)
    /\ WF_vars(\E i \in 1..Len(timers) : SE_timeout(i))
    /\ WF_vars(\E i \in 1..Len(timers) : MIDI_timeout(i))

\* ================================================================= claims
\* the values of the parameters called name, in URL order
getAll(url, name) ==
    LET sel == SelectSeq(url, LAMBDA p : p[1] = name)
    IN [i \in 1..Len(sel) |-> sel[i][2]]

\* the step hands a search to the network
IssuesSearch == searchIssued' = searchIssued + 1
\* the step calls fetchAutocomplete
IssuesAutocomplete == acIssued' = acIssued + 1

\* C1: when the newest search B was answered successfully and an older search A,
\* still pending when B was issued, was answered after B, then once nothing is
\* pending the visible results are B's answer and loading is false.
C1_StaleSearchDiscarded ==
    \A a, b \in 1..Len(searchDone) :
        ( /\ searchPending = <<>>
          /\ searchDone[b].id = searchIssued
          /\ searchDone[b].ok
          /\ searchDone[a].id < searchDone[b].id
          /\ a > b )
        => (results = searchDone[b].data /\ loading = FALSE)

\* C2: while the most recently issued search has not settled, loading is true
\* (so the settlement of an older search never clears it).
C2_LoadingWhileNewestPending ==
    (\E i \in 1..Len(searchPending) : searchPending[i] = searchIssued) => loading = TRUE

\* C3: the answer of an autocomplete request that is not the most recently
\* issued one leaves the visible suggestion list as it was.
C3_AutocompleteLastRequestWins ==
    [][\A r \in acPending :
          (r \notin acPending' /\ r # acIssued) => autocomplete' = autocomplete]_vars

\* C4: at most one debounce timer is alive and it carries the text of the last
\* change; a text change leaves exactly the timer it armed; fetchAutocomplete is
\* called only by the firing of that one timer, once, with the current text.
C4_Debounce ==
    /\ [](Len(timers) <= 1 /\ \A i \in 1..Len(timers) : timers[i].q = query)
    /\ [][query' # query => (Len(timers') = 1 /\ timers'[1].q = query')]_vars
    /\ [][acIssued' # acIssued =>
            ( /\ IssuesAutocomplete
              /\ lastEvent'.kind = "timeout"
              /\ Len(timers) = 1 /\ timers' = <<>>
              /\ acQuery' = query /\ query' = query )]_vars

C4_Witness ==
    /\ lastEvent.kind = "timeout"
    /\ events >= 2
    /\ searchIssued = 0
    /\ filters \in {SE_initialFilters, MIDI_initialFilters}
    /\ acIssued = 1
    /\ acQuery = query
    /\ timers = <<>>

\* C5: a change to a text of length 0 or 1 leaves the suggestion list empty in
\* the state right after the change, and the timer it armed calls no
\* fetchAutocomplete.
C5_ShortTextSuppression ==
    /\ []((lastEvent.kind = "change" /\ Len(query) < 2) => autocomplete = <<>>)
    /\ [][(lastEvent'.kind = "timeout" /\ Len(query) < 2 /\ Len(timers) = 1)
            => acIssued' = acIssued]_vars

\* C6: every fetchAutocomplete call is for a text whose trimmed length is at
\* least 2.
C6_TrimmedThreshold ==
    [][IssuesAutocomplete => Len(trim(acQuery')) >= 2]_vars

\* C7: a submit with empty text and no difficulty and no genre facet issues no
\* search and changes neither results nor loading.
C7_EmptyGuard ==
    [][(lastEvent'.kind = "submit" /\ events' = events + 1
        /\ query = <<>> /\ filters.difficulty = <<>> /\ filters.genre = <<>>)
       => (searchIssued' = searchIssued /\ results' = results /\ loading' = loading)]_vars

\* C8: with blank text a submit issues a search exactly when a difficulty or a
\* genre facet is active.
C8_GuardEitherFacet ==
    [][(lastEvent'.kind = "submit" /\ events' = events + 1 /\ trim(query) = <<>>)
       => (IssuesSearch <=> (filters.difficulty # <<>> \/ filters.genre # <<>>))]_vars

\* C9: picking a suggestion issues a search (the guard on the picked text lets
\* it pass), and the request carries the picked suggestion as its text.
C9_PickSubmitsPickedText ==
    [][(lastEvent'.kind = "pick" /\ events' = events + 1)
       => ( /\ IssuesSearch
            /\ app = SE => getAll(searchUrl', "query") = <<encodeURIComponent(query')>> )]_vars

\* C10: in the state right after a submit or a pick the suggestion list is
\* empty.
C10_SubmitClearsSuggestions ==
    lastEvent.kind \in {"submit", "pick"} => autocomplete = <<>>

\* the view model exposes an error flag and it is set
ErrorShown == "error" \in DOMAIN viewModel /\ viewModel["error"] = TRUE

\* C11 (as stated): when a search fails, the result list is the one that was
\* shown when that search was issued, and loading is cleared.
C11_RejectedKeepsResultsOfIssueTime ==
    [][\A i \in 1..Len(searchPending) :
          (lastEvent'.kind = "search_failed" /\ lastEvent'.id = searchPending[i])
          => (results' = resultsAtIssue[i] /\ loading' = FALSE)]_vars

\* C11 (amended): when a search fails, the result list keeps the value it had
\* right before the failure was handled, and loading is cleared.
C11_RejectedKeepsShownResults ==
    [][lastEvent'.kind = "search_failed" => (results' = results /\ loading' = FALSE)]_vars

C11_Witness ==
    /\ lastEvent.kind = "search_failed"
    /\ results # <<>>
    /\ loading = FALSE

\* C12: after a failed search the view model shows an error flag that is set;
\* after a failed autocomplete it does not.
C12_SearchFailureSurfaced ==
    /\ lastEvent.kind = "search_failed" => ErrorShown
    /\ lastEvent.kind = "ac_failed" => ~ErrorShown

\* C13: after a failed autocomplete request the suggestion list is empty and
\* no error is shown.
C13_AutocompleteFailureClears ==
    lastEvent.kind = "ac_failed" => (autocomplete = <<>> /\ ~ErrorShown)

\* C14: when a search answer is applied, the results are exactly the records
\* of that answer, the suggestion list is empty and loading is false.
C14_SearchFulfilled ==
    lastEvent.kind = "search_ok"
    => ( /\ results = searchDone[Len(searchDone)].data
         /\ autocomplete = <<>>
         /\ loading = FALSE )

Range(sq) == {sq[i] : i \in 1..Len(sq)}
Without(sq, value) == SelectSeq(sq, LAMBDA v : v # value)
FacetInputs(key) == IF key = "difficulty" THEN DifficultyInputs(app) ELSE GenreInputs(app)
\* the filter state after handleFilterChange(key, value) on filter state f
Toggled(f, key, value) == [f EXCEPT ![key] = toggle(f[key], value)]

\* C15 (as stated): from every reachable filter state, toggling a facet value
\* twice in a row gives back the filter state, stored order included.
C15_ToggleTwiceIsIdentity ==
    \A key \in {"difficulty", "genre"} : \A v \in FacetInputs(key) :
        Toggled(Toggled(filters, key, v), key, v) = filters

\* C15 (amended): toggling a facet value twice in a row gives back the same
\* sets with no duplicate and the other fields untouched; the stored order is
\* the same when the value was absent, and the value has moved to the end of
\* its facet list when it was present.
C15_ToggleTwiceKeepsSets ==
    \A key \in {"difficulty", "genre"} : \A v \in FacetInputs(key) :
        LET twice == Toggled(Toggled(filters, key, v), key, v)
        IN /\ \A k \in DOMAIN filters \ {key} : twice[k] = filters[k]
           /\ Range(twice[key]) = Range(filters[key])
           /\ Len(twice[key]) = Len(filters[key])
           /\ ~arrayIncludes(filters[key], v) => twice[key] = filters[key]
           /\ arrayIncludes(filters[key], v)
              => twice[key] = Append(Without(filters[key], v), v)

\* two difficulties are active: toggling the first one twice moves it
C15_Witness ==
    /\ lastEvent.kind = "toggle"
    /\ Len(filters.difficulty) = 2
    /\ Toggled(Toggled(filters, "difficulty", filters.difficulty[1]),
               "difficulty", filters.difficulty[1]).difficulty
       = <<filters.difficulty[2], filters.difficulty[1]>>

\* C16: right after clear-filters every filter field has its initial default
\* and the free text is empty.
C16_ClearResetsAll ==
    lastEvent.kind = "clear" => (filters = MIDI_initialFilters /\ query = <<>>)

\* C17: the text of an outbound search request is the trimmed free text, and
\* there is no query parameter when the trimmed text is empty.
C17_TextSerialization ==
    [][(app = SE /\ IssuesSearch /\ lastEvent'.kind = "submit")
       => getAll(searchUrl', "query")
          = IF trim(query) = <<>> THEN <<>> ELSE <<encodeURIComponent(trim(query))>>]_vars

\* C18: an outbound search request has one difficulty parameter per active
\* difficulty and one genre parameter per active genre, in stored order;
\* parsed back they give the active sets; the facet parameters are the same
\* for every submit from the same filter state.
C18_FacetRoundTrip ==
    [][(app = SE /\ IssuesSearch)
       => \A key \in {"difficulty", "genre"} :
            /\ getAll(searchUrl', key) = filters[key]
            /\ Range(getAll(searchUrl', key)) = Range(filters[key])
            /\ Len(getAll(searchUrl', key)) = Cardinality(Range(filters[key]))
            /\ \A q \in TypedTexts :
                 getAll(SE_url(q, filters), key) = getAll(searchUrl', key)]_vars

\* a request with two difficulties and one genre was issued
C18_Witness ==
    /\ app = SE
    /\ lastEvent.kind = "submit"
    /\ Len(getAll(searchUrl, "difficulty")) = 2
    /\ Len(getAll(searchUrl, "genre")) = 1
    /\ getAll(searchUrl, "difficulty") = filters.difficulty

\* C20: no facet list ever holds a value twice, and a toggle adds the value
\* when absent, removes it when present, keeps the other entries in their
\* order and leaves every other field alone.
C20_NoDuplicateFacets ==
    /\ [](\A key \in {"difficulty", "genre"} :
              Len(filters[key]) = Cardinality(Range(filters[key])))
    /\ [][(lastEvent'.kind = "toggle" /\ events' = events + 1)
          => \E key \in {"difficulty", "genre"} : \E v \in FacetInputs(key) :
               /\ Range(filters'[key])
                  = IF v \in Range(filters[key])
                    THEN Range(filters[key]) \ {v}
                    ELSE Range(filters[key]) \cup {v}
               /\ Without(filters'[key], v) = Without(filters[key], v)
               /\ \A k \in DOMAIN filters \ {key} : filters'[k] = filters[k]]_vars

\* three toggles and nothing else, one difficulty left: a value was added
\* and removed again
C20_Witness ==
    /\ app = SE
    /\ lastEvent.kind = "toggle"
    /\ events = 3 /\ searchIssued = 0 /\ timer = 1
    /\ Len(filters.difficulty) = 1
    /\ filters.genre = <<>>

\* C19: whatever a 200 answer of the search holds, the surface is not in a
\* crashed state and every element it presents is a record with its required
\* fields.
C19_NormalizationTotal ==
    /\ ~Crashed
    /\ app = SE => \A i \in 1..Len(results) : results[i].isRecord

\* the text an encoded parameter value stands for
RECURSIVE decodeURIComponent(_)
decodeURIComponent(s) ==
    IF s = <<>> THEN <<>>
    ELSE IF Len(s) >= 3 /\ SubSeq(s, 1, 3) = <<"%", "2", "0">>
         THEN <<" ">> \o decodeURIComponent(SubSeq(s, 4, Len(s)))
         ELSE <<Head(s)>> \o decodeURIComponent(Tail(s))
\* the free text a request carries: none when it has no query parameter
TextOf(url) ==
    IF getAll(url, "query") = <<>> THEN <<>>
    ELSE decodeURIComponent(getAll(url, "query")[1])

\* C21: a search request issued by a submit carries the free text and the
\* facet selections of the moment the submit is handled; only issuing a
\* search changes the recorded request; and no submit, timer firing or
\* answer changes the free text or the filter state.
C21_CopyAtIssue ==
    /\ [][(app = SE /\ IssuesSearch /\ lastEvent'.kind = "submit")
          => TextOf(searchUrl') = query]_vars
    /\ [][(app = SE /\ IssuesSearch)
          => \A key \in {"difficulty", "genre"} : getAll(searchUrl', key) = filters[key]]_vars
    /\ [][searchUrl' # searchUrl => IssuesSearch]_vars
    /\ [][lastEvent'.kind \in {"submit", "timeout", "search_ok", "search_failed",
                               "ac_ok", "ac_failed"}
          => (query' = query /\ filters' = filters)]_vars
    /\ [][IssuesSearch => filters' = filters]_vars

\* a request is in flight, and the text was changed and a facet toggled
\* after it was issued
C21_Witness ==
    /\ app = SE
    /\ searchPending # <<>>
    /\ lastEvent.kind \in {"change", "toggle"}
    /\ TextOf(searchUrl) # <<>>
    /\ TextOf(searchUrl) # query
    /\ getAll(searchUrl, "difficulty") # filters.difficulty

\* C22: after the component is unmounted no debounce timer is alive, and no
\* step taken after the unmount issues an autocomplete request.
C22_TimerReleasedOnTeardown ==
    /\ [](~mounted => timers = <<>>)
    /\ [][~mounted => acIssued' = acIssued]_vars

\* unmounted while the timer of a text of two characters was armed: it had
\* not fired, no request was ever issued
C22_Witness ==
    /\ ~mounted
    /\ lastEvent.kind = "unmount"
    /\ Len(query) >= DebounceQuery
    /\ acIssued = 0

\* C23: while the component is mounted a loading flag that is set is
\* eventually cleared; it is clear whenever no search is pending; and it
\* goes from clear to set only in a submit or pick that issues a search.
C23_LoadingEventuallyClears ==
    /\ (loading = TRUE) ~> (loading = FALSE \/ ~mounted)
    /\ [](searchPending = <<>> => loading = FALSE)
    /\ [][(loading = FALSE /\ loading' = TRUE)
          => (IssuesSearch /\ lastEvent'.kind \in {"submit", "pick"})]_vars

\* two searches were issued and both have settled, the last one by failing
C23_Witness ==
    /\ mounted
    /\ searchIssued >= 2
    /\ searchPending = <<>>
    /\ lastEvent.kind = "search_failed"
    /\ loading = FALSE

\* C24: in the state right after a search has settled the suggestion list
\* is empty, and the next step leaves it empty unless it changes the text.
C24_SuggestionsStayCleared ==
    /\ [](lastEvent.kind \in {"search_ok", "search_failed"} /\ app = SE
            => autocomplete = <<>>)
    /\ [][(lastEvent.kind \in {"search_ok", "search_failed"}
           /\ autocomplete = <<>> /\ query' = query)
          => autocomplete' = <<>>]_vars

\* the text is a suggestion: it was picked, it is too long to be typed
Picked == arrayIncludes(MockSuggestions, query)

\* C25: picking a suggestion that differs from the text arms one debounce
\* timer for the picked text, as typing that text does; when a timer for a
\* text of length two or more fires, one autocomplete request for that text
\* is issued; and if no other text change follows, the request for the picked
\* text is eventually issued while the component stays mounted.
C25_PickArmsDebounce ==
    /\ [][\A i \in 1..Len(autocomplete) :
            (lastEvent'.kind = "pick" /\ events' = events + 1
             /\ query' = autocomplete[i] /\ autocomplete[i] # query)
            => ( /\ Len(timers') = 1
                 /\ timers'[1].q = autocomplete[i]
                 /\ timers'[1].h = timer'
                 /\ acIssued' = acIssued )]_vars
    /\ [][\A i \in 1..Len(timers) :
            (lastEvent'.kind = "timeout" /\ timers' = RemoveAt(timers, i)
             /\ Len(timers[i].q) >= DebounceQuery)
            => ( /\ IssuesAutocomplete
                 /\ acQuery' = timers[i].q
                 /\ (app = MIDI /\ arrayIncludes(MockSuggestions, timers[i].q))
                    => autocomplete' = <<timers[i].q>> )]_vars
    /\ (Picked /\ timers # <<>>)
       ~> ((Picked /\ acQuery = query /\ timers = <<>>) \/ ~Picked \/ ~mounted \/ Crashed)

\* the request for the picked text was answered and the answer is shown
C25_Witness ==
    /\ Picked
    /\ acQuery = query
    /\ timers = <<>>
    /\ autocomplete = <<query>>
    /\ lastEvent.kind \in {"ac_ok", "timeout"}

====
